---- MODULE Spec2Model ----
(***************************************************************************)
(* Model of src/keyword_position_comparer.py: one run of the script over   *)
(* the uploaded spreadsheets.  Text is a sequence of character codes       *)
(* (32 = space, 97 = "a", ...), so that strip() and the lexicographic key  *)
(* order of an outer merge are computed, not assumed.  Every other cell is *)
(* a string; pandas' missing value is the marker NaN.                      *)
(***************************************************************************)
EXTENDS Integers, Sequences, FiniteSets, TLC

VARIABLES
    uploaded_files,     \* the spreadsheets handed to st.file_uploader, in upload order
    pc,                 \* position of the script run
    i,                  \* index of the read loop (enumerate(..., start=1))
    num_files,          \* len(uploaded_files), line 50
    dfs,                \* the frames loaded so far, line 49
    messages,           \* st.warning / st.info / st.error / st.success, in order
    keywords_in_first,  \* line 92
    merged_df,          \* lines 97-133
    tab1, tab2, tab3,   \* lines 155-167
    output,             \* the workbook written at lines 172-179, as its sheets
    download,           \* the download button of lines 186-191 is offered
    preview             \* the three preview tables of lines 196-203

vars == <<uploaded_files, pc, i, num_files, dfs, messages, keywords_in_first,
          merged_df, tab1, tab2, tab3, output, download, preview>>

-----------------------------------------------------------------------------
(* Bounds of the model's inputs. *)

MaxN == 4           \* most files of a run whose files all load
MaxRows == 2        \* most data rows of one spreadsheet
MaxTotal == 4       \* most data rows of all spreadsheets of a run together

\* the same three for the runs that are compared with their reordered reruns
OrderN == 4
OrderRows == 2
OrderTotal == 3

(* Program constants. *)

MIN_FILES == 3
MAX_FILES == 6
MIN_COLUMNS == 5
PREVIEW_ROWS == 20

-----------------------------------------------------------------------------
(* Values. *)

NaN == "NaN"        \* pandas' missing value
NA == "N/A"         \* the fill value of lines 106-123

\* Cells that pd.read_excel turns into NaN: the empty cell, written "", and
\* its default na_values, for the string-valued cells of the model.
NaStrings ==
    {"", "#N/A", "#N/A N/A", "#NA", "-1.#IND", "-1.#QNAN", "-NaN",
     "-nan", "1.#IND", "1.#QNAN", "<NA>", "N/A", "NA", "NULL",
     "NaN", "None", "n/a", "nan", "null"}

\* The same for keyword text, in the same order: the empty cell << >>,
\* "#N/A", "#N/A N/A", "#NA", "-1.#IND", "-1.#QNAN", "-NaN", "-nan", "1.#IND",
\* "1.#QNAN", "<NA>", "N/A", "NA", "NULL", "NaN", "None", "n/a", "nan", "null".
NaTexts ==
    {<< >>,
     <<35, 78, 47, 65>>,
     <<35, 78, 47, 65, 32, 78, 47, 65>>,
     <<35, 78, 65>>,
     <<45, 49, 46, 35, 73, 78, 68>>,
     <<45, 49, 46, 35, 81, 78, 65, 78>>,
     <<45, 78, 97, 78>>,
     <<45, 110, 97, 110>>,
     <<49, 46, 35, 73, 78, 68>>,
     <<49, 46, 35, 81, 78, 65, 78>>,
     <<60, 78, 65, 62>>,
     <<78, 47, 65>>,
     <<78, 65>>,
     <<78, 85, 76, 76>>,
     <<78, 97, 78>>,
     <<78, 111, 110, 101>>,
     <<110, 47, 97>>,
     <<110, 97, 110>>,
     <<110, 117, 108, 108>>}

\* str(float("nan")): what astype(str) makes of a missing keyword, "nan".
NanText == <<110, 97, 110>>

\* str.isspace() of one character: the code points str.strip() removes
IsSpace(c) ==
    \/ c \in {9, 10, 11, 12, 13, 28, 29, 30, 31, 32, 133, 160}
    \/ c \in {5760, 8232, 8233, 8239, 8287, 12288}
    \/ c \in 8192..8202

RECURSIVE LStrip(_)
LStrip(s) ==
    IF s = << >> THEN s
    ELSE IF IsSpace(Head(s)) THEN LStrip(Tail(s)) ELSE s

RECURSIVE RStrip(_)
RStrip(s) ==
    IF s = << >> THEN s
    ELSE IF IsSpace(s[Len(s)]) THEN RStrip(SubSeq(s, 1, Len(s) - 1)) ELSE s

\* str.strip()
Strip(s) == RStrip(LStrip(s))

\* pd.read_excel on one cell of the columns Position, Search Volume, CPC, URL
ReadCell(c) == IF c \in NaStrings THEN NaN ELSE c

\* pd.read_excel on a keyword cell followed by astype(str): a missing keyword
\* becomes the text "nan"
KeywordAsStr(c) == IF c \in NaTexts THEN NanText ELSE c

\* Python's order on str: by code point, a proper prefix first
RECURSIVE LexLess(_, _)
LexLess(a, b) ==
    IF b = << >> THEN FALSE
    ELSE IF a = << >> THEN TRUE
    ELSE IF Head(a) # Head(b) THEN Head(a) < Head(b)
    ELSE LexLess(Tail(a), Tail(b))

MinKey(S) == CHOOSE k \in S : \A o \in S : o = k \/ LexLess(k, o)

RECURSIVE SortKeys(_)
SortKeys(S) ==
    IF S = {} THEN << >>
    ELSE LET k == MinKey(S) IN <<k>> \o SortKeys(S \ {k})

RECURSIVE Concat(_)
Concat(ss) == IF ss = << >> THEN << >> ELSE Head(ss) \o Concat(Tail(ss))

Range(s) == {s[j] : j \in 1..Len(s)}

-----------------------------------------------------------------------------
(* Tabular Loader, lines 55-82. *)

\* lines 64-74: the first five columns, renamed with the suffix idx, and the
\* keyword coerced to text and stripped.  A frame row keeps its per-file
\* columns as functions of the suffix: PositionOf[idx] is Position_idx.
NormaliseRow(r, idx) ==
    [Keyword  |-> Strip(KeywordAsStr(r.kw)),
     PositionOf     |-> (idx :> ReadCell(r.pos)),
     SearchVolumeOf |-> (idx :> ReadCell(r.sv)),
     CPCOf          |-> (idx :> ReadCell(r.cpc)),
     URLOf          |-> (idx :> ReadCell(r.url))]

\* line 77
NonEmptyKeyword(r) == r.Keyword # << >>

\* lines 64-79: the frame appended to dfs for file number idx
LoadFrame(file, idx) ==
    [cols |-> {idx},
     rows |-> SelectSeq([j \in 1..Len(file.rows) |-> NormaliseRow(file.rows[j], idx)],
                        NonEmptyKeyword)]

-----------------------------------------------------------------------------
(* Merger, lines 97-100. *)

Nulls(cols) == [c \in cols |-> NaN]

NullPart(cols) ==
    [PositionOf |-> Nulls(cols), SearchVolumeOf |-> Nulls(cols),
     CPCOf |-> Nulls(cols), URLOf |-> Nulls(cols)]

JoinRow(k, l, r) ==
    [Keyword        |-> k,
     PositionOf     |-> l.PositionOf @@ r.PositionOf,
     SearchVolumeOf |-> l.SearchVolumeOf @@ r.SearchVolumeOf,
     CPCOf          |-> l.CPCOf @@ r.CPCOf,
     URLOf          |-> l.URLOf @@ r.URLOf]

RowsOf(frame, k) == SelectSeq(frame.rows, LAMBDA r : r.Keyword = k)

\* the rows of the merge for key k: every left row with every right row,
\* left-major; a side without the key contributes one row of nulls
KeyBlock(left, right, k) ==
    LET ls == RowsOf(left, k)
        rs == RowsOf(right, k)
        lp == IF ls = << >> THEN <<NullPart(left.cols)>> ELSE ls
        rp == IF rs = << >> THEN <<NullPart(right.cols)>> ELSE rs
    IN  Concat([a \in 1..Len(lp) |-> [b \in 1..Len(rp) |-> JoinRow(k, lp[a], rp[b])]])

Keys(frame) == {frame.rows[j].Keyword : j \in 1..Len(frame.rows)}

\* pd.merge(left, right, on="Keyword", how="outer"): the union of the keys,
\* in lexicographic order
Merge(left, right) ==
    LET order == SortKeys(Keys(left) \cup Keys(right))
    IN  [cols |-> left.cols \cup right.cols,
         rows |-> Concat([j \in 1..Len(order) |-> KeyBlock(left, right, order[j])])]

\* functools.reduce(merge, dfs) for a non-empty dfs
RECURSIVE Reduce(_, _)
Reduce(acc, rest) ==
    IF rest = << >> THEN acc ELSE Reduce(Merge(acc, Head(rest)), Tail(rest))

MergeAll(frames) == Reduce(Head(frames), Tail(frames))

\* the reference set taken from the last frame, dfs[-1]
KeywordsInLast(frames) == Keys(frames[Len(frames)])

\* line 92
KeywordsInFirst(frames) == Keys(frames[1])

-----------------------------------------------------------------------------
(* Field Reconciler, lines 105-133. *)

\* .fillna("N/A") on one value
FillNA(v) == IF v = NaN THEN NA ELSE v

\* lines 105-107 raise KeyError when a column Position_n / URL_n is missing
HasColumns(frame, n) == (1..n) \subseteq frame.cols

\* lines 105-107 on one row
FillRow(r, n) ==
    [Keyword        |-> r.Keyword,
     PositionOf     |-> [c \in DOMAIN r.PositionOf |->
                            IF c \in 1..n THEN FillNA(r.PositionOf[c]) ELSE r.PositionOf[c]],
     SearchVolumeOf |-> r.SearchVolumeOf,
     CPCOf          |-> r.CPCOf,
     URLOf          |-> [c \in DOMAIN r.URLOf |->
                            IF c \in 1..n THEN FillNA(r.URLOf[c]) ELSE r.URLOf[c]]]

\* .bfill(axis=1) on the values of one row, in column order
RECURSIVE BFill(_)
BFill(vals) ==
    IF vals = << >> THEN << >>
    ELSE LET rest == BFill(Tail(vals))
         IN  IF Head(vals) # NaN THEN <<Head(vals)>> \o rest
             ELSE IF rest = << >> THEN <<NaN>>
             ELSE <<Head(rest)>> \o rest

\* the same without .bfill(axis=1): the value of file 1 alone
FirstColumnValue(of, n) == FillNA(of[1])

\* .bfill(axis=1).iloc[:, 0].fillna("N/A") over the columns X_1 .. X_n
FirstValue(of, n) == FillNA(BFill([c \in 1..n |-> of[c]])[1])

\* lines 112-124 on one row
ReconcileRow(r, n) ==
    [Keyword        |-> r.Keyword,
     PositionOf     |-> r.PositionOf,
     SearchVolumeOf |-> r.SearchVolumeOf,
     CPCOf          |-> r.CPCOf,
     URLOf          |-> r.URLOf,
     SearchVolume   |-> FirstValue(r.SearchVolumeOf, n),
     CPC            |-> FirstValue(r.CPCOf, n)]

\* position_cols built with range(1, num_files): the last file left out
CountAppearancesButLast(r, n) == Cardinality({c \in 1..(n - 1) : r.PositionOf[c] # NA})

\* presence taken from the URL columns
CountAppearancesOfUrls(r, n) == Cardinality({c \in 1..n : r.URLOf[c] # NA})

\* line 131: sum(x != "N/A" for x in row) over Position_1 .. Position_n
CountAppearances(r, n) == Cardinality({c \in 1..n : r.PositionOf[c] # NA})

\* lines 129-133 on one row
AppearancesRow(r, n) ==
    [Keyword        |-> r.Keyword,
     PositionOf     |-> r.PositionOf,
     SearchVolumeOf |-> r.SearchVolumeOf,
     CPCOf          |-> r.CPCOf,
     URLOf          |-> r.URLOf,
     SearchVolume   |-> r.SearchVolume,
     CPC            |-> r.CPC,
     Appearances    |-> CountAppearances(r, n)]

\* lines 105-107 on the frame
FillFrame(frame, n) ==
    [cols |-> frame.cols,
     rows |-> [j \in 1..Len(frame.rows) |-> FillRow(frame.rows[j], n)]]

\* lines 112-124 on the frame
ReconcileFrame(frame, n) ==
    [cols |-> frame.cols,
     rows |-> [j \in 1..Len(frame.rows) |-> ReconcileRow(frame.rows[j], n)]]

\* lines 129-133 on the frame
AppearancesFrame(frame, n) ==
    [cols |-> frame.cols,
     rows |-> [j \in 1..Len(frame.rows) |-> AppearancesRow(frame.rows[j], n)]]

-----------------------------------------------------------------------------
(* Classifier, lines 138-167. *)

\* lines 138-150 and .drop(columns=["Appearances"]): a row of a sheet
OutputRow(r, n) ==
    [Keyword      |-> r.Keyword,
     Position     |-> [c \in 1..n |-> r.PositionOf[c]],
     SearchVolume |-> r.SearchVolume,
     CPC          |-> r.CPC,
     URL          |-> [c \in 1..n |-> r.URLOf[c]]]

\* lines 155-157
InTab1(r, first) == r.Keyword \in first

\* Appearances > 2 in place of >= 2
InTab2MoreThanTwo(r, first) == r.Keyword \notin first /\ r.Appearances > 2

\* lines 159-162
InTab2(r, first) == r.Keyword \notin first /\ r.Appearances >= 2

\* the test ~isin(keywords_in_first) left out
InTab3AnyKeyword(r, first) == r.Appearances = 1

\* lines 164-167
InTab3(r, first) == r.Keyword \notin first /\ r.Appearances = 1

\* the rows kept for a sheet, without Appearances
OutputRows(kept, n) == [j \in 1..Len(kept) |-> OutputRow(kept[j], n)]

Tab1(frame, n, first) ==
    OutputRows(SelectSeq(frame.rows, LAMBDA r : InTab1(r, first)), n)

Tab2(frame, n, first) ==
    OutputRows(SelectSeq(frame.rows, LAMBDA r : InTab2(r, first)), n)

Tab3(frame, n, first) ==
    OutputRows(SelectSeq(frame.rows, LAMBDA r : InTab3(r, first)), n)

\* .head(20)
HeadRows(t) == SubSeq(t, 1, IF Len(t) < PREVIEW_ROWS THEN Len(t) ELSE PREVIEW_ROWS)

-----------------------------------------------------------------------------
(* The uploads a run is checked on. *)

\* a spreadsheet pd.read_excel parses, with its data rows (first five cells)
OkFile(rows) == [readable |-> TRUE, ncols |-> MIN_COLUMNS, rows |-> rows]

\* the same with a sixth column, which line 64 cuts off
WideFile(rows) == [readable |-> TRUE, ncols |-> MIN_COLUMNS + 1, rows |-> rows]

\* a spreadsheet of four columns
ShortFile == [readable |-> TRUE, ncols |-> MIN_COLUMNS - 1, rows |-> << >>]

\* a file pd.read_excel raises on
CorruptFile == [readable |-> FALSE, ncols |-> 0, rows |-> << >>]

RawRow(kw, pos, sv, cpc, url) ==
    [kw |-> kw, pos |-> pos, sv |-> sv, cpc |-> cpc, url |-> url]

SeqsUpTo(S, n) == UNION {[1..k -> S] : k \in 0..n}

\* keywords "boots" and "shoes", with and without a position
MainRows ==
    {RawRow(kw, pos, "", "", "u") :
        kw \in {<<98, 111, 111, 116, 115>>, <<115, 104, 111, 101, 115>>},
        pos \in {"", "1"}}

RECURSIVE SumTo(_, _)
SumTo(c, k) == IF k = 0 THEN 0 ELSE c[k] + SumTo(c, k - 1)

\* the numbers of rows of n spreadsheets: at most most each and total together
Profiles(n, most, total) == {c \in [1..n -> 0..most] : SumTo(c, n) <= total}

\* n spreadsheets that all load, spreadsheet k holding the next c[k] of rows
FilesOf(c, n, rows) ==
    [k \in 1..n |-> OkFile(SubSeq(rows, SumTo(c, k - 1) + 1, SumTo(c, k)))]

\* the scenario of the specification's section 8:
\* file1 = {shoes: 1}, file2 = {shoes: 5, boots: 2}, file3 = {boots: 8, hats: 3}
ScenarioUpload ==
    << OkFile(<<RawRow(<<115, 104, 111, 101, 115>>, "1", "100", "", "u1")>>),
       OkFile(<<RawRow(<<115, 104, 111, 101, 115>>, "5", "", "3.50", "u2"),
                RawRow(<<98, 111, 111, 116, 115>>, "2", "", "", "u2")>>),
       OkFile(<<RawRow(<<98, 111, 111, 116, 115>>, "8", "70", "", "u3"),
                RawRow(<<104, 97, 116, 115>>, "3", "", "1.20", "")>>) >>

\* keyword cells: empty, " ", a no-break space, " shoes", "shoes" followed by
\* a space and a no-break space, "shoes", "NA", "null"
KeywordCells ==
    {<< >>, <<32>>, <<160>>, <<32, 115, 104, 111, 101, 115>>,
     <<115, 104, 111, 101, 115, 32, 160>>,
     <<115, 104, 111, 101, 115>>, <<78, 65>>, <<110, 117, 108, 108>>}

LoaderRows == {RawRow(kw, "1", "", "", "") : kw \in KeywordCells}

LoaderUploads ==
    {<<OkFile(a), OkFile(b), OkFile(<<RawRow(<<104, 97, 116, 115>>, "3", "", "", "")>>)>> :
        a \in SeqsUpTo(LoaderRows, MaxRows), b \in SeqsUpTo(LoaderRows, 1)}

\* one keyword whose Search Volume and CPC differ from file to file
ValueRows ==
    {RawRow(<<104, 97, 116, 115>>, "1", sv, cpc, "u") :
        sv \in {"", "n/a", "10", "20"}, cpc \in {"", "3.50", "4"}}

ValueUploads ==
    {<<OkFile(a), OkFile(b), OkFile(c)>> :
        a \in SeqsUpTo(ValueRows, 1), b \in SeqsUpTo(ValueRows, 1),
        c \in SeqsUpTo(ValueRows, 1)}

OneRow == <<RawRow(<<104, 97, 116, 115>>, "1", "10", "", "u")>>

\* four files of which the competitors 2 and 3 give "boots" another Search
\* Volume and CPC each, and competitor 4 alone has "hats"
OrderUpload ==
    << OkFile(<<RawRow(<<115, 104, 111, 101, 115>>, "1", "100", "", "u1")>>),
       OkFile(<<RawRow(<<98, 111, 111, 116, 115>>, "2", "10", "3.50", "u2")>>),
       OkFile(<<RawRow(<<98, 111, 111, 116, 115>>, "8", "20", "4", "u3")>>),
       OkFile(<<RawRow(<<104, 97, 116, 115>>, "3", "", "1.20", "u4")>>) >>

\* a row without position and URL
BareRow == <<RawRow(<<104, 97, 116, 115>>, "#NA", "10", "", "")>>

\* uploads of too few or too many files, and files that do not load
ErrorUploads ==
    {[k \in 1..n |-> OkFile(OneRow)] : n \in (0..(MIN_FILES - 1)) \cup {MAX_FILES + 1}}
    \cup [1..MIN_FILES ->
            {CorruptFile, ShortFile, WideFile(OneRow), OkFile(OneRow), OkFile(BareRow)}]
    \cup [1..(MIN_FILES + 1) -> {ShortFile, OkFile(OneRow)}]

Uploads == {ScenarioUpload, OrderUpload} \cup LoaderUploads \cup ValueUploads \cup ErrorUploads

-----------------------------------------------------------------------------
(* The run. *)

NoFrame == [cols |-> {}, rows |-> << >>]

Message(level, text, file) == [level |-> level, text |-> text, file |-> file]

\* an upload of 3..most_n spreadsheets of rows of MainRows that all load, or
\* one of Uploads
Uploaded(most_n, most, total) ==
    \/ \E n \in MIN_FILES..most_n : \E c \in Profiles(n, most, total) :
            \E rows \in [1..SumTo(c, n) -> MainRows] :
                uploaded_files = FilesOf(c, n, rows)
    \/ uploaded_files \in Uploads

\* the script before line 37
Start ==
    /\ pc = "start"
    /\ i = 0
    /\ num_files = 0
    /\ dfs = << >>
    /\ messages = << >>
    /\ keywords_in_first = {}
    /\ merged_df = NoFrame
    /\ tab1 = << >>
    /\ tab2 = << >>
    /\ tab3 = << >>
    /\ output = << >>
    /\ download = FALSE
    /\ preview = << >>

Init == Uploaded(MaxN, MaxRows, MaxTotal) /\ Start

InitOrder == Uploaded(OrderN, OrderRows, OrderTotal) /\ Start

\* line 37: nothing uploaded, the script renders the page and ends
NoUpload ==
    /\ pc = "start"
    /\ Len(uploaded_files) = 0
    /\ pc' = "idle"
    /\ UNCHANGED <<uploaded_files, i, num_files, dfs, messages, keywords_in_first,
                   merged_df, tab1, tab2, tab3, output, download, preview>>

\* lines 39-41
TooFewFiles ==
    /\ pc = "start"
    /\ Len(uploaded_files) > 0
    /\ Len(uploaded_files) < MIN_FILES
    /\ messages' = Append(messages, Message("warning", "at least 3", 0))
    /\ pc' = "stopped"
    /\ UNCHANGED <<uploaded_files, i, num_files, dfs, keywords_in_first,
                   merged_df, tab1, tab2, tab3, output, download, preview>>

\* lines 43-45
TooManyFiles ==
    /\ pc = "start"
    /\ Len(uploaded_files) > MAX_FILES
    /\ messages' = Append(messages, Message("warning", "no more than 6", 0))
    /\ pc' = "stopped"
    /\ UNCHANGED <<uploaded_files, i, num_files, dfs, keywords_in_first,
                   merged_df, tab1, tab2, tab3, output, download, preview>>

\* lines 47-50 reached although the file count is wrong (st.stop() missing)
StartReadingAnyCount ==
    /\ pc = "start"
    /\ Len(uploaded_files) > 0
    /\ messages' = Append(messages, Message("info", "client file", 1))
    /\ dfs' = << >>
    /\ num_files' = Len(uploaded_files)
    /\ i' = 1
    /\ pc' = "read"
    /\ UNCHANGED <<uploaded_files, keywords_in_first,
                   merged_df, tab1, tab2, tab3, output, download, preview>>

\* lines 47-50
StartReading ==
    /\ pc = "start"
    /\ Len(uploaded_files) >= MIN_FILES
    /\ Len(uploaded_files) <= MAX_FILES
    /\ messages' = Append(messages, Message("info", "client file", 1))
    /\ dfs' = << >>
    /\ num_files' = Len(uploaded_files)
    /\ i' = 1
    /\ pc' = "read"
    /\ UNCHANGED <<uploaded_files, keywords_in_first,
                   merged_df, tab1, tab2, tab3, output, download, preview>>

\* lines 57, 81-82: pd.read_excel raises
ReadFails ==
    /\ pc = "read"
    /\ i <= num_files
    /\ ~uploaded_files[i].readable
    /\ messages' = Append(messages, Message("error", "error reading", i))
    /\ i' = i + 1
    /\ UNCHANGED <<uploaded_files, pc, num_files, dfs, keywords_in_first,
                   merged_df, tab1, tab2, tab3, output, download, preview>>

\* lines 60-62
ReadTooFewColumns ==
    /\ pc = "read"
    /\ i <= num_files
    /\ uploaded_files[i].readable
    /\ uploaded_files[i].ncols < MIN_COLUMNS
    /\ messages' = Append(messages, Message("error", "fewer than 5 columns", i))
    /\ i' = i + 1
    /\ UNCHANGED <<uploaded_files, pc, num_files, dfs, keywords_in_first,
                   merged_df, tab1, tab2, tab3, output, download, preview>>

\* lines 64-79
ReadFile ==
    /\ pc = "read"
    /\ i <= num_files
    /\ uploaded_files[i].readable
    /\ uploaded_files[i].ncols >= MIN_COLUMNS
    /\ dfs' = Append(dfs, LoadFrame(uploaded_files[i], i))
    /\ i' = i + 1
    /\ UNCHANGED <<uploaded_files, pc, num_files, messages, keywords_in_first,
                   merged_df, tab1, tab2, tab3, output, download, preview>>

\* lines 85-87
NoFilesLoaded ==
    /\ pc = "read"
    /\ i > num_files
    /\ Len(dfs) = 0
    /\ messages' = Append(messages, Message("error", "no files could be processed", 0))
    /\ pc' = "stopped"
    /\ UNCHANGED <<uploaded_files, i, num_files, dfs, keywords_in_first,
                   merged_df, tab1, tab2, tab3, output, download, preview>>

\* lines 92-100
MergeFiles ==
    /\ pc = "read"
    /\ i > num_files
    /\ Len(dfs) # 0
    /\ keywords_in_first' = KeywordsInFirst(dfs)
    /\ merged_df' = MergeAll(dfs)
    /\ pc' = "fill"
    /\ UNCHANGED <<uploaded_files, i, num_files, dfs, messages,
                   tab1, tab2, tab3, output, download, preview>>

\* lines 105-107, every column there
FillMissing ==
    /\ pc = "fill"
    /\ HasColumns(merged_df, num_files)
    /\ merged_df' = FillFrame(merged_df, num_files)
    /\ pc' = "reconcile"
    /\ UNCHANGED <<uploaded_files, i, num_files, dfs, messages, keywords_in_first,
                   tab1, tab2, tab3, output, download, preview>>

\* the first n in 1..num_files without a column Position_n
FirstMissing(frame, n) ==
    CHOOSE m \in (1..n) \ frame.cols : \A o \in (1..n) \ frame.cols : m <= o

\* lines 105-107, a skipped file's column missing: merged_df[f"Position_{i}"]
\* raises KeyError after the columns before it were filled, and the run ends.
\* With one loaded frame reduce returns dfs[0] itself, so the columns filled
\* in merged_df are filled in dfs[0] too.
FillMissingKeyError ==
    /\ pc = "fill"
    /\ ~HasColumns(merged_df, num_files)
    /\ merged_df' = FillFrame(merged_df, FirstMissing(merged_df, num_files) - 1)
    /\ messages' = Append(messages,
                       Message("exception", "KeyError", FirstMissing(merged_df, num_files)))
    /\ pc' = "crashed"
    /\ dfs' = IF Len(dfs) = 1 THEN <<merged_df'>> ELSE dfs
    /\ UNCHANGED <<uploaded_files, i, num_files, keywords_in_first,
                   tab1, tab2, tab3, output, download, preview>>

\* lines 112-124
ReconcileValues ==
    /\ pc = "reconcile"
    /\ merged_df' = ReconcileFrame(merged_df, num_files)
    /\ pc' = "count"
    /\ UNCHANGED <<uploaded_files, i, num_files, dfs, messages, keywords_in_first,
                   tab1, tab2, tab3, output, download, preview>>

\* lines 129-133
CountAppearancesOfRows ==
    /\ pc = "count"
    /\ merged_df' = AppearancesFrame(merged_df, num_files)
    /\ pc' = "split"
    /\ UNCHANGED <<uploaded_files, i, num_files, dfs, messages, keywords_in_first,
                   tab1, tab2, tab3, output, download, preview>>

\* lines 138-167
SplitTabs ==
    /\ pc = "split"
    /\ tab1' = Tab1(merged_df, num_files, keywords_in_first)
    /\ tab2' = Tab2(merged_df, num_files, keywords_in_first)
    /\ tab3' = Tab3(merged_df, num_files, keywords_in_first)
    /\ pc' = "export"
    /\ UNCHANGED <<uploaded_files, i, num_files, dfs, messages, keywords_in_first,
                   merged_df, output, download, preview>>

Sheet(name, rows) == [name |-> name, rows |-> rows]

\* lines 172-191
Export ==
    /\ pc = "export"
    /\ output' = <<Sheet("Client", tab1), Sheet("2+ Competitors", tab2),
                   Sheet("1 Competitor", tab3)>>
    /\ messages' = Append(messages, Message("success", "processed", 0))
    /\ download' = TRUE
    /\ pc' = "preview"
    /\ UNCHANGED <<uploaded_files, i, num_files, dfs, keywords_in_first,
                   merged_df, tab1, tab2, tab3, preview>>

\* lines 196-203
Preview ==
    /\ pc = "preview"
    /\ preview' = <<HeadRows(tab1), HeadRows(tab2), HeadRows(tab3)>>
    /\ pc' = "done"
    /\ UNCHANGED <<uploaded_files, i, num_files, dfs, messages, keywords_in_first,
                   merged_df, tab1, tab2, tab3, output, download>>

Next ==
    \/ NoUpload
    \/ TooFewFiles
    \/ TooManyFiles
    \/ StartReading
    \/ ReadFails
    \/ ReadTooFewColumns
    \/ ReadFile
    \/ NoFilesLoaded
    \/ MergeFiles
    \/ FillMissing
    \/ FillMissingKeyError
    \/ ReconcileValues
    \/ CountAppearancesOfRows
    \/ SplitTabs
    \/ Export
    \/ Preview

Spec == Init /\ [][Next]_vars

\* the runs compared with their reordered reruns
SpecOrder == InitOrder /\ [][Next]_vars

-----------------------------------------------------------------------------
(* What the properties speak of. *)

\* the text of a source row's keyword, as the Loader keeps it
SourceKeyword(r) == Strip(KeywordAsStr(r.kw))

\* the keywords of the rows of uploaded file j that reach the merge
KeywordsOfFile(j) ==
    {SourceKeyword(uploaded_files[j].rows[x]) : x \in 1..Len(uploaded_files[j].rows)}
        \ {<< >>}

\* uploaded file j holds a row for keyword k with a position
HasPosition(j, k) ==
    \E x \in 1..Len(uploaded_files[j].rows) :
        /\ SourceKeyword(uploaded_files[j].rows[x]) = k
        /\ ReadCell(uploaded_files[j].rows[x].pos) # NaN

\* uploaded file j holds a row for keyword k without a position
LacksPosition(j, k) ==
    \E x \in 1..Len(uploaded_files[j].rows) :
        /\ SourceKeyword(uploaded_files[j].rows[x]) = k
        /\ ReadCell(uploaded_files[j].rows[x].pos) = NaN

Reconciled == pc \in {"count", "split", "export", "preview", "done"}
Counted == pc \in {"split", "export", "preview", "done"}
Classified == pc \in {"export", "preview", "done"}
Ended == pc \in {"idle", "done", "stopped", "crashed"}

KeysOfTab(t) == {t[x].Keyword : x \in 1..Len(t)}

\* the buckets (1 Client, 2 TwoPlusCompetitors, 3 OneCompetitor) holding the
\* sheet row o
BucketsOfRow(o) ==
    {b \in 1..3 : o \in Range(IF b = 1 THEN tab1 ELSE IF b = 2 THEN tab2 ELSE tab3)}

Shoes == <<115, 104, 111, 101, 115>>
Boots == <<98, 111, 111, 116, 115>>
Hats == <<104, 97, 116, 115>>

-----------------------------------------------------------------------------
(* C1 as stated: once the rows are classified, every keyword of the merged  *)
(* table is in exactly one of the three buckets.                            *)
C1_KeywordPartition ==
    Classified =>
        \A k \in Keys(merged_df) :
            Cardinality({b \in 1..3 :
                k \in KeysOfTab(IF b = 1 THEN tab1 ELSE IF b = 2 THEN tab2 ELSE tab3)}) = 1

(* C1 amended: every merged row is in at most one bucket, and in exactly    *)
(* one if and only if its keyword is in file 1 or its Appearances is at      *)
(* least 1; the three sheets hold exactly those rows.                        *)
C1_RowPartition ==
    Classified =>
        /\ \A x \in 1..Len(merged_df.rows) :
            LET r == merged_df.rows[x]
                b == BucketsOfRow(OutputRow(r, num_files))
            IN  /\ Cardinality(b) <= 1
                /\ Cardinality(b) = 1 <=>
                        (r.Keyword \in KeywordsOfFile(1) \/ r.Appearances >= 1)
        /\ Len(tab1) + Len(tab2) + Len(tab3) =
                Cardinality({x \in 1..Len(merged_df.rows) :
                    \/ merged_df.rows[x].Keyword \in KeywordsOfFile(1)
                    \/ merged_df.rows[x].Appearances >= 1})

C1_Witness ==
    /\ pc = "done"
    /\ tab1 # << >>
    /\ \E x \in 1..Len(merged_df.rows) :
            BucketsOfRow(OutputRow(merged_df.rows[x], num_files)) = {}
    /\ \E x \in 1..Len(merged_df.rows) :
            BucketsOfRow(OutputRow(merged_df.rows[x], num_files)) = {3}

-----------------------------------------------------------------------------
(* C2: every merged row whose keyword is in file 1 is on the Client sheet   *)
(* and no row of that keyword is on a competitor sheet, whatever its         *)
(* Appearances and positions.                                                *)
C2_ClientBucket ==
    Classified =>
        \A x \in 1..Len(merged_df.rows) :
            LET r == merged_df.rows[x]
            IN  r.Keyword \in KeywordsOfFile(1) =>
                    /\ OutputRow(r, num_files) \in Range(tab1)
                    /\ r.Keyword \notin KeysOfTab(tab2)
                    /\ r.Keyword \notin KeysOfTab(tab3)
                    /\ Len(RowsOf(merged_df, r.Keyword)) =
                          Len(SelectSeq(tab1, LAMBDA o : o.Keyword = r.Keyword))

C2_Witness ==
    /\ pc = "done"
    /\ \E x, y \in 1..Len(merged_df.rows) :
        /\ merged_df.rows[x].Keyword \in KeywordsOfFile(1)
        /\ merged_df.rows[x].Appearances = 0
        /\ merged_df.rows[y].Keyword \in KeywordsOfFile(1)
        /\ merged_df.rows[y].Appearances >= 2
        /\ OutputRow(merged_df.rows[x], num_files) \in Range(tab1)
        /\ OutputRow(merged_df.rows[y], num_files) \in Range(tab1)

-----------------------------------------------------------------------------
\* the files 2..N in which keyword k is present (some row carries it)
CompetitorsWith(k) == {j \in 2..num_files : k \in KeywordsOfFile(j)}

\* the files 2..N in which keyword k has a position
CompetitorsRanking(k) == {j \in 2..num_files : HasPosition(j, k)}

(* C3 as stated: a keyword absent from file 1 and present in exactly one of *)
(* the files 2..N is on the OneCompetitor sheet, one present in two or more  *)
(* is on the TwoPlusCompetitors sheet.                                       *)
C3_ByPresence ==
    Classified =>
        \A k \in Keys(merged_df) \ KeywordsOfFile(1) :
            /\ Cardinality(CompetitorsWith(k)) = 1 => k \in KeysOfTab(tab3)
            /\ Cardinality(CompetitorsWith(k)) >= 2 => k \in KeysOfTab(tab2)

(* C3 amended: a keyword absent from file 1 that has a position in exactly   *)
(* one of the files 2..N is on the OneCompetitor sheet and on no other, one  *)
(* that has a position in two or more of them is on the TwoPlusCompetitors   *)
(* sheet and not on the Client sheet; for the scenario shoes -> Client,      *)
(* boots -> TwoPlusCompetitors, hats -> OneCompetitor.                       *)
C3_ByPosition ==
    Classified =>
        /\ \A k \in Keys(merged_df) \ KeywordsOfFile(1) :
            /\ Cardinality(CompetitorsRanking(k)) = 1 =>
                    /\ k \in KeysOfTab(tab3)
                    /\ k \notin KeysOfTab(tab2)
                    /\ k \notin KeysOfTab(tab1)
            /\ Cardinality(CompetitorsRanking(k)) >= 2 =>
                    /\ k \in KeysOfTab(tab2)
                    /\ k \notin KeysOfTab(tab1)
        /\ uploaded_files = ScenarioUpload =>
            /\ KeysOfTab(tab1) = {Shoes}
            /\ KeysOfTab(tab2) = {Boots}
            /\ KeysOfTab(tab3) = {Hats}

C3_Witness ==
    /\ pc = "done"
    /\ uploaded_files = ScenarioUpload
    /\ Len(tab1) = 1 /\ Len(tab2) = 1 /\ Len(tab3) = 1

-----------------------------------------------------------------------------
(* C4 as stated: a run in which a file was skipped and at least three files  *)
(* loaded ends with the workbook written and offered for download.           *)
C4_SkipAndContinue ==
    (/\ Ended
     /\ \E m \in 1..Len(messages) : messages[m].level = "error" /\ messages[m].file > 0
     /\ Len(dfs) >= MIN_FILES)
        => (output # << >> /\ download)

-----------------------------------------------------------------------------
FileCountError ==
    Len(uploaded_files) > 0 /\
    (Len(uploaded_files) < MIN_FILES \/ Len(uploaded_files) > MAX_FILES)

FileFails(f) == ~f.readable \/ f.ncols < MIN_COLUMNS

NoValidFiles ==
    /\ ~FileCountError
    /\ Len(uploaded_files) > 0
    /\ \A j \in 1..Len(uploaded_files) : FileFails(uploaded_files[j])

NoOutput ==
    /\ output = << >>
    /\ ~download
    /\ preview = << >>
    /\ tab1 = << >> /\ tab2 = << >> /\ tab3 = << >>

(* C5: with a wrong number of files the run stops before any file is read;  *)
(* with no file loading it stops before the merge; a stopped run has shown   *)
(* a message and never has a workbook, a download or a preview.              *)
C5_FatalNoOutput ==
    /\ FileCountError =>
        /\ pc \in {"start", "stopped"}
        /\ i = 0 /\ dfs = << >>
        /\ NoOutput
    /\ NoValidFiles =>
        /\ pc \in {"start", "read", "stopped"}
        /\ dfs = << >> /\ merged_df = NoFrame
        /\ NoOutput
    /\ pc = "stopped" =>
        /\ FileCountError \/ NoValidFiles
        /\ messages # << >>
        /\ messages[Len(messages)].level \in {"warning", "error"}
        /\ merged_df = NoFrame
        /\ NoOutput

C5_Witness ==
    /\ pc = "stopped"
    /\ NoValidFiles
    /\ i = num_files + 1
    /\ \E j \in 1..num_files : ~uploaded_files[j].readable
    /\ \E j \in 1..num_files : uploaded_files[j].readable

-----------------------------------------------------------------------------
\* the columns 1..n at which the per-file value is not null
NonNull(of, n) == {c \in 1..n : of[c] # NaN}

Lowest(S) == CHOOSE m \in S : \A o \in S : m <= o

\* the value the claim requires of the per-file values of one row
Earliest(of, n) == IF NonNull(of, n) = {} THEN NA ELSE of[Lowest(NonNull(of, n))]

(* C6: for every merged row the reconciled Search Volume (CPC) is the        *)
(* Search Volume_i (CPC_i) of the lowest i at which it is not null, and is    *)
(* "N/A" exactly when it is null in every file; file 1 CPC null and file 2    *)
(* CPC 3.50 gives 3.50.                                                       *)
C6_EarliestValue ==
    Reconciled =>
        \A x \in 1..Len(merged_df.rows) :
            LET r == merged_df.rows[x]
            IN  /\ r.SearchVolume = Earliest(r.SearchVolumeOf, num_files)
                /\ r.CPC = Earliest(r.CPCOf, num_files)
                /\ r.SearchVolume = NA <=> NonNull(r.SearchVolumeOf, num_files) = {}
                /\ r.CPC = NA <=> NonNull(r.CPCOf, num_files) = {}
                /\ (r.CPCOf[1] = NaN /\ r.CPCOf[2] = "3.50") => r.CPC = "3.50"

C6_Witness ==
    /\ pc = "done"
    /\ \E x \in 1..Len(merged_df.rows) :
        LET r == merged_df.rows[x]
        IN  /\ r.CPCOf[1] = NaN /\ r.CPCOf[2] = "3.50" /\ r.CPCOf[3] = "4"
            /\ r.CPC = "3.50"
            /\ r.SearchVolumeOf[1] = NaN /\ r.SearchVolumeOf[2] = NaN
            /\ r.SearchVolumeOf[3] = "20"
            /\ r.SearchVolume = "20"

-----------------------------------------------------------------------------
\* the orders of n files that keep the client file first
PermsOf ==
    [n \in MIN_FILES..MAX_FILES |->
        {p \in [1..n -> 1..n] :
            p[1] = 1 /\ \A a, b \in 1..n : a # b => p[a] # p[b]}]

Tally(seq) == [t \in Range(seq) |-> Cardinality({x \in 1..Len(seq) : seq[x] = t})]

Bucket(r, first) ==
    IF InTab1(r, first) THEN 1
    ELSE IF InTab2(r, first) THEN 2
    ELSE IF InTab3(r, first) THEN 3 ELSE 0

\* a run of lines 55-167 over files that all load: per merged row its
\* Appearances and bucket and the row of the sheet (lines 138-150), with the
\* Position and URL of the file in slot slot[c]
Classification(files, slot) ==
    LET n == Len(files)
        frames == [k \in 1..n |-> LoadFrame(files[k], k)]
        first == KeywordsInFirst(frames)
        counted == AppearancesFrame(
                       ReconcileFrame(FillFrame(MergeAll(frames), n), n), n)
    IN  [x \in 1..Len(counted.rows) |->
            LET r == counted.rows[x]
            IN  [Keyword      |-> r.Keyword,
                 Appearances  |-> r.Appearances,
                 Bucket       |-> Bucket(r, first),
                 Position     |-> [c \in 1..n |-> r.PositionOf[slot[c]]],
                 SearchVolume |-> r.SearchVolume,
                 CPC          |-> r.CPC,
                 URL          |-> [c \in 1..n |-> r.URLOf[slot[c]]]]]

\* the same of the run at hand, read off its sheets
ClassificationOfRun(slot) ==
    [x \in 1..Len(merged_df.rows) |->
        LET r == merged_df.rows[x]
            b == BucketsOfRow(OutputRow(r, num_files))
        IN  [Keyword      |-> r.Keyword,
             Appearances  |-> r.Appearances,
             Bucket       |-> IF b = {} THEN 0 ELSE Lowest(b),
             Position     |-> [c \in 1..num_files |-> r.PositionOf[slot[c]]],
             SearchVolume |-> r.SearchVolume,
             CPC          |-> r.CPC,
             URL          |-> [c \in 1..num_files |-> r.URLOf[slot[c]]]]]

\* the rows of the run at hand with the Search Volume and CPC that the files
\* taken in the order slot require: of the first of them that has one
ClassificationReordered(slot) ==
    [x \in 1..Len(merged_df.rows) |->
        LET r == merged_df.rows[x]
        IN  [ClassificationOfRun(slot)[x] EXCEPT
                !.SearchVolume =
                    Earliest([c \in 1..num_files |-> r.SearchVolumeOf[slot[c]]], num_files),
                !.CPC =
                    Earliest([c \in 1..num_files |-> r.CPCOf[slot[c]]], num_files)]]

Identity(n) == [c \in 1..n |-> c]

Permuted(files, p) == [k \in 1..Len(files) |-> files[p[k]]]

(* C7 as stated: a run over the same files with the competitor files 2..N in *)
(* another order gives the same rows with the same Appearances and the same   *)
(* bucket, and nothing of a row changes but the slot that holds each file's   *)
(* Position and URL.                                                          *)
C7_OnlySlotsChange ==
    pc = "done" =>
        \A p \in PermsOf[num_files] :
            Tally(Classification(Permuted(uploaded_files, p), Identity(num_files)))
                = Tally(ClassificationOfRun(p))

(* C7 amended: a run over the same files with the competitor files 2..N in   *)
(* another order gives every keyword the same rows with the same Appearances  *)
(* and the same bucket; what changes is the slot holding each file's Position *)
(* and URL, and the Search Volume and CPC, which are those of the first file  *)
(* of the new order that has one.                                             *)
C7_CompetitorOrder ==
    pc = "done" =>
        \A p \in PermsOf[num_files] :
            Tally(Classification(Permuted(uploaded_files, p), Identity(num_files)))
                = Tally(ClassificationReordered(p))

C7_Witness ==
    /\ pc = "done"
    /\ num_files = MIN_FILES + 1
    /\ tab2 # << >> /\ tab3 # << >>
    /\ \E p \in PermsOf[num_files] :
        /\ Tally(ClassificationOfRun(p)) # Tally(ClassificationOfRun(Identity(num_files)))
        /\ Tally(ClassificationReordered(p)) # Tally(ClassificationOfRun(p))

-----------------------------------------------------------------------------
(* C8 as stated: the merged table holds exactly one row for every keyword of *)
(* a loaded file and no other row, and the columns of every file without the  *)
(* keyword are null in it.                                                    *)
C8_OneRowPerKeyword ==
    (pc = "fill") =>
        /\ Keys(merged_df) = UNION {KeywordsOfFile(j) : j \in merged_df.cols}
        /\ \A k \in Keys(merged_df) : Len(RowsOf(merged_df, k)) = 1
        /\ \A x \in 1..Len(merged_df.rows) : \A j \in merged_df.cols :
            LET r == merged_df.rows[x]
            IN  r.Keyword \notin KeywordsOfFile(j) =>
                    /\ r.PositionOf[j] = NaN /\ r.SearchVolumeOf[j] = NaN
                    /\ r.CPCOf[j] = NaN /\ r.URLOf[j] = NaN

-----------------------------------------------------------------------------
(* C9 as stated: every merged row whose keyword is absent from file 1 has    *)
(* Appearances >= 1.                                                          *)
C9_NeverZero ==
    Counted =>
        \A x \in 1..Len(merged_df.rows) :
            merged_df.rows[x].Keyword \notin KeywordsOfFile(1) =>
                merged_df.rows[x].Appearances >= 1

(* C9 amended: a merged row whose keyword is absent from file 1 has          *)
(* Appearances >= 1 provided every source row carrying that keyword has a     *)
(* position; Appearances is 0 only for a keyword some source row of which     *)
(* has none.                                                                  *)
C9_ZeroOnlyWithoutPosition ==
    Counted =>
        \A x \in 1..Len(merged_df.rows) :
            LET r == merged_df.rows[x]
            IN  r.Keyword \notin KeywordsOfFile(1) =>
                    \/ r.Appearances >= 1
                    \/ \E j \in 2..num_files : LacksPosition(j, r.Keyword)

C9_Witness ==
    /\ pc = "done"
    /\ \E x, y \in 1..Len(merged_df.rows) :
        /\ merged_df.rows[x].Keyword \notin KeywordsOfFile(1)
        /\ merged_df.rows[x].Appearances = 0
        /\ merged_df.rows[y].Keyword \notin KeywordsOfFile(1)
        /\ \A j \in 2..num_files : ~LacksPosition(j, merged_df.rows[y].Keyword)
        /\ merged_df.rows[y].Appearances = 1

-----------------------------------------------------------------------------
\* the rows of uploaded file j whose keyword cell holds text other than
\* whitespace
RowsWithKeyword(j) ==
    {x \in 1..Len(uploaded_files[j].rows) : Strip(uploaded_files[j].rows[x].kw) # << >>}

(* C10 as stated: of every loaded file exactly the rows with a keyword reach *)
(* the merge (a row whose keyword cell is blank or whitespace does not), and  *)
(* every keyword that does is not empty and has no whitespace at its ends.    *)
C10_BlankKeywordsDropped ==
    \A d \in 1..Len(dfs) : \A j \in dfs[d].cols :
        /\ Len(dfs[d].rows) = Cardinality(RowsWithKeyword(j))
        /\ \A x \in 1..Len(dfs[d].rows) :
            /\ dfs[d].rows[x].Keyword # << >>
            /\ Strip(dfs[d].rows[x].Keyword) = dfs[d].rows[x].Keyword

====
